---- MODULE Spec2Model ----
(***************************************************************************)
(* Model of services/controllerhost/placement.go: the distance placement   *)
(* strategy (PickInputHost, PickOutputHost, PickStoreHosts), the store      *)
(* eligibility filter, the distance-constrained selector pickHosts and the  *)
(* round-robin culler with its process-wide counter table rrMap.            *)
(***************************************************************************)
EXTENDS Integers, Sequences, FiniteSets, TLC

VARIABLES
    conf,       \* controller configuration and topology map, fixed at construction
    storeList,  \* the registry's live store hosts (rpm.GetHosts(StoreServiceName))
    cfg,        \* per store host: what cfgMgr.Get and loadMetrics.Get answer
    rrMap,      \* var rrMap: host UUID -> selection count
    last,       \* the most recent placement call: its inputs and what it returned
    elig,       \* one doesStoreMeetConstraints evaluation: lookups and verdict
    cullRun,    \* repeated 1-host culls over a fixed pool: pool and picks so far
    procs,      \* concurrent roundRobinCull invocations: position and locals
    rrMapMutex  \* var rrMapMutex: 0 when free, else the holder

vars == <<conf, storeList, cfg, rrMap, last, elig, cullRun, procs, rrMapMutex>>

----------------------------------------------------------------------------
(* Bounds of the model *)

MaxCount == 3         \* PickStoreHosts is called with count in 1..MaxCount
MaxPicks == 2         \* a placement call starts only while the counters sum to less
MaxBytes == 2         \* free disk space and its configured minimum range over 0..MaxBytes
MaxCullCalls == 7     \* length of a run of 1-host culls over a fixed pool
NumProcs == 2         \* concurrently running roundRobinCull invocations
MaxCullCount == 2     \* a concurrent cull asks for 1..MaxCullCount hosts

(* Program constants *)

MaxInt32 == 2147483647
ZeroDistance == 0
InfiniteDistance == 65535

----------------------------------------------------------------------------
(* Hosts.  A host record is identified by its UUID; Addr is its "host:port" *)
(* address, kept as the pair strings.Split(addr, ":") yields.  s1 and s2    *)
(* share the host part and differ only in port.                             *)

StoreUniverse == <<"s1", "s2", "s3">>
InputUniverse == <<"i1", "i2">>
OutputUniverse == <<"o1", "o2">>

Range(s) == {s[i] : i \in DOMAIN s}

StoreHosts == Range(StoreUniverse)
InputHosts == Range(InputUniverse)
OutputHosts == Range(OutputUniverse)
AllHosts == StoreHosts \cup InputHosts \cup OutputHosts

Addr ==
    [h \in AllHosts |->
        CASE h = "s1" -> <<"a", 1>>
          [] h = "s2" -> <<"a", 2>>
          [] h = "s3" -> <<"b", 1>>
          [] h = "i1" -> <<"c", 1>>
          [] h = "i2" -> <<"d", 1>>
          [] h = "o1" -> <<"e", 1>>
          [] h = "o2" -> <<"f", 1>>]

Nil == "nil"          \* a nil *common.HostInfo slice entry

SeqSum(f, S) ==
    LET RECURSIVE Sum(_)
        Sum(T) == IF T = {} THEN 0
                  ELSE LET x == CHOOSE y \in T : TRUE IN f[x] + Sum(T \ {x})
    IN Sum(S)

(* The sub-sequence of s at the positions in I, in order. *)
RECURSIVE AtPositions(_, _, _)
AtPositions(s, I, i) ==
    IF i > Len(s) THEN <<>>
    ELSE (IF i \in I THEN <<s[i]>> ELSE <<>>) \o AtPositions(s, I, i + 1)

----------------------------------------------------------------------------
(* Eligibility filter *)

doesStoreMeetConstraintsStrict(c) ==
    IF c.cfgErr THEN TRUE
    ELSE IF c.admin # "enabled" THEN FALSE
    ELSE IF c.metErr THEN TRUE
    ELSE IF c.free < c.min THEN FALSE
    ELSE TRUE

doesStoreMeetConstraints(c) ==
    IF c.cfgErr THEN TRUE
    ELSE IF c.admin # "enabled" THEN FALSE
    ELSE IF c.metErr THEN TRUE
    ELSE IF c.free <= c.min THEN FALSE
    ELSE TRUE

(* What the config store and the metrics store answer for a store host. *)
CfgOk == [cfgErr |-> FALSE, admin |-> "enabled", metErr |-> FALSE, free |-> 2, min |-> 1]
CfgDisabled == [cfgErr |-> FALSE, admin |-> "disabled", metErr |-> FALSE, free |-> 2, min |-> 1]
CfgLowDisk == [cfgErr |-> FALSE, admin |-> "enabled", metErr |-> FALSE, free |-> 1, min |-> 1]
CfgCases == {CfgOk, CfgDisabled, CfgLowDisk}

RECURSIVE FilterEligible(_, _)
FilterEligible(hosts, c) ==
    IF hosts = <<>> THEN <<>>
    ELSE (IF doesStoreMeetConstraints(c[Head(hosts)]) THEN <<Head(hosts)>> ELSE <<>>)
         \o FilterEligible(Tail(hosts), c)

findEligibleStoreHosts(regErr, hosts, c) ==
    IF regErr THEN [hosts |-> <<>>, err |-> "errRegistry"]
    ELSE LET result == FilterEligible(hosts, c)
         IN IF Len(result) = 0
            THEN [hosts |-> <<>>, err |-> "errNoStoreHosts"]
            ELSE [hosts |-> result, err |-> "nil"]

----------------------------------------------------------------------------
(* Fairness culler *)

RECURSIVE findCurrentMaximum(_, _, _, _)
findCurrentMaximum(in, rr, i, min) ==
    IF i > Len(in) THEN min
    ELSE IF in[i] = Nil THEN findCurrentMaximum(in, rr, i + 1, min)
    ELSE LET m == IF min < rr[in[i]] THEN rr[in[i]] ELSE min
         IN IF m = 0 THEN m ELSE findCurrentMaximum(in, rr, i + 1, m)

RECURSIVE findCurrentMinimum(_, _, _, _)
findCurrentMinimum(in, rr, i, min) ==
    IF i > Len(in) THEN min
    ELSE IF in[i] = Nil THEN findCurrentMinimum(in, rr, i + 1, min)
    ELSE LET m == IF min > rr[in[i]] THEN rr[in[i]] ELSE min
         IN IF m = 0 THEN m ELSE findCurrentMinimum(in, rr, i + 1, m)

RECURSIVE addMinimumsBackwards(_, _, _, _, _, _)
addMinimumsBackwards(in, rr, min, out, count, i) ==
    LET k == Len(in) + 1 - i
    IN IF i > Len(in) THEN [in |-> in, out |-> out]
       ELSE IF in[k] = Nil THEN addMinimumsBackwards(in, rr, min, out, count, i + 1)
       ELSE IF rr[in[k]] = min
            THEN LET o == Append(out, in[k])
                     n == [in EXCEPT ![k] = Nil]
                 IN IF Len(o) = count THEN [in |-> n, out |-> o]
                    ELSE addMinimumsBackwards(n, rr, min, o, count, i + 1)
            ELSE addMinimumsBackwards(in, rr, min, out, count, i + 1)

RECURSIVE addMinimums(_, _, _, _, _, _)
addMinimums(in, rr, min, out, count, i) ==
    IF i > Len(in) THEN [in |-> in, out |-> out]
    ELSE IF in[i] = Nil THEN addMinimums(in, rr, min, out, count, i + 1)
    ELSE IF rr[in[i]] = min
         THEN LET o == Append(out, in[i])
                  n == [in EXCEPT ![i] = Nil]
              IN IF Len(o) = count THEN [in |-> n, out |-> o]
                 ELSE addMinimums(n, rr, min, o, count, i + 1)
         ELSE addMinimums(in, rr, min, out, count, i + 1)

RECURSIVE findNextMinimum(_, _, _, _)
findNextMinimum(in, rr, out, count) ==
    LET min == findCurrentMinimum(in, rr, 1, MaxInt32)
        r == addMinimums(in, rr, min, out, count, 1)
    IN IF Len(r.out) = count \/ min = MaxInt32 THEN r
       ELSE findNextMinimum(r.in, rr, r.out, count)

RECURSIVE incrementAll(_, _)
incrementAll(rr, out) ==
    IF out = <<>> THEN rr
    ELSE incrementAll([rr EXCEPT ![Head(out)] = @ + 1], Tail(out))

roundRobinCullUncounted(in, count, rr) ==
    LET r == findNextMinimum(in, rr, <<>>, count)
    IN IF Len(r.out) # count
       THEN [out |-> <<>>, in |-> r.in, rr |-> rr]
       ELSE [out |-> r.out, in |-> r.in, rr |-> rr]

roundRobinCullCountsShortfall(in, count, rr) ==
    LET r == findNextMinimum(in, rr, <<>>, count)
    IN IF Len(r.out) # count
       THEN [out |-> <<>>, in |-> r.in, rr |-> incrementAll(rr, r.out)]
       ELSE [out |-> r.out, in |-> r.in, rr |-> incrementAll(rr, r.out)]

roundRobinCullCountsCandidates(in, count, rr) ==
    LET r == findNextMinimum(in, rr, <<>>, count)
    IN IF Len(r.out) # count
       THEN [out |-> <<>>, in |-> r.in, rr |-> rr]
       ELSE [out |-> r.out, in |-> r.in, rr |-> incrementAll(rr, in)]

roundRobinCull(in, count, rr) ==
    LET r == findNextMinimum(in, rr, <<>>, count)
    IN IF Len(r.out) # count
       THEN [out |-> <<>>, in |-> r.in, rr |-> rr]
       ELSE [out |-> r.out, in |-> r.in, rr |-> incrementAll(rr, r.out)]

----------------------------------------------------------------------------
(* Distance-constrained selector *)

toResources(hosts) == [i \in DOMAIN hosts |-> Addr[hosts[i]][1]]

(* hostPortMap[hostPort[0]] = port, assigned in pool order: a later pool    *)
(* host with the same host part overwrites the earlier one.                 *)
hostPortMap(poolHosts) ==
    [r \in Range(toResources(poolHosts)) |->
        LET i == CHOOSE k \in DOMAIN poolHosts :
                    /\ Addr[poolHosts[k]][1] = r
                    /\ \A j \in DOMAIN poolHosts :
                          Addr[poolHosts[j]][1] = r => j <= k
        IN Addr[poolHosts[i]][2]]

(* distMap.FindResources: an error, or resources drawn from the pool's      *)
(* resource list, at most count of them; from holds the pool positions the  *)
(* returned resources were taken at.                                        *)
FindResources(poolResources, sourceResources, count) ==
    {[err |-> TRUE, resources |-> <<>>, from |-> <<>>]} \cup
    {[err |-> FALSE, resources |-> AtPositions(poolResources, I, 1),
      from |-> AtPositions([i \in DOMAIN poolResources |-> i], I, 1)] :
        I \in {J \in SUBSET DOMAIN poolResources : Cardinality(J) <= count}}

(* rpm.FindHostForAddr: the live host of the service with that address. *)
FindHostForAddr(live, addr) == CHOOSE h \in Range(live) : Addr[h] = addr

pickHostsWholePool(distMap, poolHosts, sourceHosts, count, resp, resolveErr, live) ==
    IF ~distMap THEN [hosts |-> poolHosts, err |-> "nil"]
    ELSE IF resp.err THEN [hosts |-> <<>>, err |-> "errTopology"]
    ELSE IF resolveErr /\ Len(resp.resources) > 0
         THEN [hosts |-> <<>>, err |-> "errResolve"]
    ELSE LET ports == hostPortMap(poolHosts)
         IN [hosts |-> [i \in DOMAIN resp.resources |->
                          FindHostForAddr(live, <<resp.resources[i], ports[resp.resources[i]]>>)],
             err |-> "nil"]

pickHostsLivePorts(distMap, poolHosts, sourceHosts, count, resp, resolveErr, live) ==
    IF ~distMap THEN [hosts |-> SubSeq(poolHosts, 1, count), err |-> "nil"]
    ELSE IF resp.err THEN [hosts |-> <<>>, err |-> "errTopology"]
    ELSE IF resolveErr /\ Len(resp.resources) > 0
         THEN [hosts |-> <<>>, err |-> "errResolve"]
    ELSE LET ports == hostPortMap(live)
         IN [hosts |-> [i \in DOMAIN resp.resources |->
                          FindHostForAddr(live, <<resp.resources[i], ports[resp.resources[i]]>>)],
             err |-> "nil"]

pickHosts(distMap, poolHosts, sourceHosts, count, resp, resolveErr, live) ==
    IF ~distMap THEN [hosts |-> SubSeq(poolHosts, 1, count), err |-> "nil"]
    ELSE IF resp.err THEN [hosts |-> <<>>, err |-> "errTopology"]
    ELSE IF resolveErr /\ Len(resp.resources) > 0
         THEN [hosts |-> <<>>, err |-> "errResolve"]
    ELSE LET ports == hostPortMap(poolHosts)
         IN [hosts |-> [i \in DOMAIN resp.resources |->
                          FindHostForAddr(live, <<resp.resources[i], ports[resp.resources[i]]>>)],
             err |-> "nil"]

(* What one pickHosts call is answered by its collaborators: the topology   *)
(* service's response and whether the registry fails to resolve an address. *)
(* Without a topology map neither collaborator is asked.                    *)
NoResponse == [err |-> TRUE, resources |-> <<>>, from |-> <<>>]

Answers(distMap, poolHosts, sourceHosts, count) ==
    IF distMap
    THEN FindResources(toResources(poolHosts), toResources(sourceHosts), count) \X BOOLEAN
    ELSE {<<NoResponse, FALSE>>}

----------------------------------------------------------------------------
(* Distance bands *)

Band(min, max) == [min |-> min, max |-> max]

normalizeMin(min) == IF min <= ZeroDistance THEN ZeroDistance + 1 ELSE min

normalizeMaxStrict(min, max) == IF max < min THEN InfiniteDistance ELSE max

normalizeMax(min, max) == IF max <= min THEN InfiniteDistance ELSE max

fallbackAppliesOnMin(minFallback, maxFallback, minDistance, maxDistance) ==
    minFallback < minDistance

fallbackApplies(minFallback, maxFallback, minDistance, maxDistance) ==
    minFallback < minDistance \/ maxFallback > maxDistance

(* The counter table after a distance-constrained pick returned hosts:     *)
(* PickStoreHosts returns them at once, rrMap is not touched.               *)
distancePickCountersBumped(rr, hosts) == incrementAll(rr, hosts)

distancePickCounters(rr, hosts) == rr

(* The query pickHosts sends to the topology service, if it sends one. *)
queryOf(distMap, min, max) == IF distMap THEN <<Band(min, max)>> ELSE <<>>

----------------------------------------------------------------------------
(* Placement service *)

Idle ==
    [op |-> "none", count |-> 0, regErr |-> FALSE, pool |-> <<>>, result |-> <<>>,
     err |-> "nil", path |-> "none", queries |-> <<>>, culls |-> 0,
     rrPre |-> rrMap, list |-> <<>>, attempts |-> <<>>, sources |-> <<>>]

(* One attempt of a call to produce its hosts: the primary or the fallback  *)
(* distance pick, or the cull; from holds the pool positions the topology   *)
(* answer of a successful distance pick was taken at.                       *)
Attempt(kind, ok, from) == [kind |-> kind, ok |-> ok, from |-> from]

distanceAttempt(kind, p, resp) ==
    Attempt(kind, p.err = "nil", IF p.err = "nil" /\ conf.distMap THEN resp.from ELSE <<>>)

Returned(op, count, regErr, pool, result, err, path, queries, culls, rr, list, attempts, sources) ==
    /\ last' = [op |-> op, count |-> count, regErr |-> regErr, pool |-> pool,
                result |-> result, err |-> err, path |-> path, queries |-> queries,
                culls |-> culls, rrPre |-> rrMap, list |-> list,
                attempts |-> attempts, sources |-> sources]
    /\ rrMap' = rr
    /\ UNCHANGED <<conf, storeList, cfg, elig, cullRun, procs, rrMapMutex>>

PicksLeft == SeqSum(rrMap, AllHosts) < MaxPicks

(* PickStoreHosts from its last attempt on: the fairness cull. *)
cullStoreHosts(count, regErr, pool, queries, attempts) ==
    LET c == roundRobinCull(pool, count, rrMap)
    IN IF Len(c.out) = count
       THEN Returned("store", count, regErr, pool, c.out, "nil", "cull", queries, 1, c.rr, storeList,
                     Append(attempts, Attempt("cull", TRUE, <<>>)), <<>>)
       ELSE Returned("store", count, regErr, pool, <<>>, "errNoStoreHosts", "none", queries, 1, c.rr, storeList,
                     Append(attempts, Attempt("cull", FALSE, <<>>)), <<>>)

fallbackStoreHostsNoReturn(count, regErr, pool, minDistance, maxDistance, q1, attempts) ==
    IF fallbackApplies(conf.minF, conf.maxF, minDistance, maxDistance)
    THEN LET minFallback == normalizeMin(conf.minF)
             maxFallback == normalizeMax(minFallback, conf.maxF)
             q2 == q1 \o queryOf(conf.distMap, minFallback, maxFallback)
         IN \E a \in Answers(conf.distMap, pool, <<>>, count) :
               LET p == pickHosts(conf.distMap, pool, <<>>, count, a[1], a[2], storeList)
               IN cullStoreHosts(count, regErr, pool, q2,
                                 Append(attempts, distanceAttempt("fallback", p, a[1])))
    ELSE cullStoreHosts(count, regErr, pool, q1, attempts)

(* PickStoreHosts after its primary attempt failed. *)
fallbackStoreHosts(count, regErr, pool, minDistance, maxDistance, q1, attempts) ==
    IF fallbackApplies(conf.minF, conf.maxF, minDistance, maxDistance)
    THEN LET minFallback == normalizeMin(conf.minF)
             maxFallback == normalizeMax(minFallback, conf.maxF)
             q2 == q1 \o queryOf(conf.distMap, minFallback, maxFallback)
         IN \E a \in Answers(conf.distMap, pool, <<>>, count) :
               LET p == pickHosts(conf.distMap, pool, <<>>, count, a[1], a[2], storeList)
                   tried == Append(attempts, distanceAttempt("fallback", p, a[1]))
               IN IF p.err = "nil"
                  THEN Returned("store", count, regErr, pool, p.hosts, "nil", "fallback", q2, 0,
                                distancePickCounters(rrMap, p.hosts), storeList, tried, <<>>)
                  ELSE cullStoreHosts(count, regErr, pool, q2, tried)
    ELSE cullStoreHosts(count, regErr, pool, q1, attempts)

insufficientHostsErr == "errNoHosts"

insufficientHostsCulled(count, regErr, pool) ==
    cullStoreHosts(count, regErr, pool, <<>>, <<>>)

(* PickStoreHosts when fewer store hosts are eligible than it was asked for. *)
insufficientHosts(count, regErr, pool) ==
    Returned("store", count, regErr, pool, <<>>, insufficientHostsErr, "none", <<>>, 0, rrMap, storeList,
             <<>>, <<>>)

PickStoreHosts ==
    /\ PicksLeft
    /\ \E count \in 1..MaxCount, regErr \in BOOLEAN :
          LET e == findEligibleStoreHosts(regErr, storeList, cfg)
          IN IF e.err # "nil"
             THEN Returned("store", count, regErr, <<>>, <<>>, "errNoStoreHosts", "none", <<>>, 0, rrMap, storeList,
                           <<>>, <<>>)
             ELSE IF Len(e.hosts) < count
             THEN insufficientHosts(count, regErr, e.hosts)
             ELSE LET minDistance == normalizeMin(conf.minD)
                      maxDistance == normalizeMax(minDistance, conf.maxD)
                      q1 == queryOf(conf.distMap, minDistance, maxDistance)
                  IN \E a \in Answers(conf.distMap, e.hosts, <<>>, count) :
                        LET p == pickHosts(conf.distMap, e.hosts, <<>>, count, a[1], a[2], storeList)
                            tried == <<distanceAttempt("primary", p, a[1])>>
                        IN IF p.err = "nil"
                           THEN Returned("store", count, regErr, e.hosts, p.hosts, "nil", "primary", q1, 0,
                                         distancePickCounters(rrMap, p.hosts), storeList, tried, <<>>)
                           ELSE fallbackStoreHosts(count, regErr, e.hosts, minDistance, maxDistance, q1, tried)

pickHostsWithFallbackNeedsSource(regErr, hosts, rr, minDistance, maxDistance, minFallback, maxFallback, storeHosts) ==
    IF ~regErr
    THEN LET max == normalizeMax(minDistance, maxDistance)
             c == roundRobinCull(hosts, IF storeHosts = <<>> /\ max < InfiniteDistance THEN 0 ELSE 1, rr)
         IN IF Len(c.out) = 1
            THEN [host |-> c.out, err |-> "nil", rr |-> c.rr, list |-> c.in, culls |-> 1]
            ELSE [host |-> <<>>, err |-> "errNoHosts", rr |-> c.rr, list |-> c.in, culls |-> 1]
    ELSE [host |-> <<>>, err |-> "errNoHosts", rr |-> rr, list |-> <<>>, culls |-> 0]

(* The bands and the store hosts are parameters of the code and are not     *)
(* read after maxDistance is normalized.                                    *)
pickHostsWithFallback(regErr, hosts, rr, minDistance, maxDistance, minFallback, maxFallback, storeHosts) ==
    IF ~regErr
    THEN LET max == normalizeMax(minDistance, maxDistance)
             c == roundRobinCull(hosts, 1, rr)
         IN IF Len(c.out) = 1
            THEN [host |-> c.out, err |-> "nil", rr |-> c.rr, list |-> c.in, culls |-> 1]
            ELSE [host |-> <<>>, err |-> "errNoHosts", rr |-> c.rr, list |-> c.in, culls |-> 1]
    ELSE [host |-> <<>>, err |-> "errNoHosts", rr |-> rr, list |-> <<>>, culls |-> 0]

(* The lists a registry may return for a role: its live hosts, in any order. *)
DistinctSeqs(S) ==
    UNION {{s \in [1..n -> S] : \A i, j \in 1..n : i # j => s[i] # s[j]} :
             n \in 0..Cardinality(S)}

(* rpm.GetHosts of a role: an error and no list, or a list. *)
GetHosts(regErr, live) == IF regErr THEN {<<>>} ELSE DistinctSeqs(live)

(* The store hosts a caller passes: none, or the store hosts of the fleet. *)
SourceArgs == {<<>>, storeList}

ioAttempts(r) == IF r.culls = 0 THEN <<>> ELSE <<Attempt("cull", r.err = "nil", <<>>)>>

PickInputHost ==
    /\ PicksLeft
    /\ \E regErr \in BOOLEAN, storeHosts \in SourceArgs :
       \E hosts \in GetHosts(regErr, InputHosts) :
          LET r == pickHostsWithFallback(regErr, hosts, rrMap, conf.minD, conf.maxD, conf.minF, conf.maxF,
                                         storeHosts)
          IN IF r.err # "nil"
             THEN Returned("input", 1, regErr, hosts, <<>>, "errNoInputHosts", "none", <<>>, r.culls, r.rr, r.list,
                           ioAttempts(r), storeHosts)
             ELSE Returned("input", 1, regErr, hosts, r.host, "nil", "cull", <<>>, r.culls, r.rr, r.list,
                           ioAttempts(r), storeHosts)

PickOutputHost ==
    /\ PicksLeft
    /\ \E regErr \in BOOLEAN, storeHosts \in SourceArgs :
       \E hosts \in GetHosts(regErr, OutputHosts) :
          LET r == pickHostsWithFallback(regErr, hosts, rrMap, conf.minD, conf.maxD, conf.minF, conf.maxF,
                                         storeHosts)
          IN IF r.err # "nil"
             THEN Returned("output", 1, regErr, hosts, <<>>, "errNoOutputHosts", "none", <<>>, r.culls, r.rr, r.list,
                           ioAttempts(r), storeHosts)
             ELSE Returned("output", 1, regErr, hosts, r.host, "nil", "cull", <<>>, r.culls, r.rr, r.list,
                           ioAttempts(r), storeHosts)

----------------------------------------------------------------------------
(* The collaborators' state changes between placement calls. *)

EnvChanged(list, c) ==
    /\ storeList' = list
    /\ cfg' = c
    /\ last' = Idle
    /\ UNCHANGED <<conf, rrMap, elig, cullRun, procs, rrMapMutex>>

HostJoin ==
    \E h \in StoreHosts \ Range(storeList), c \in CfgCases :
        EnvChanged(AtPositions(StoreUniverse,
                               {i \in DOMAIN StoreUniverse :
                                   StoreUniverse[i] \in Range(storeList) \cup {h}}, 1),
                   [cfg EXCEPT ![h] = c])

HostLeave ==
    \E h \in Range(storeList) :
        EnvChanged(AtPositions(StoreUniverse,
                               {i \in DOMAIN StoreUniverse :
                                   StoreUniverse[i] \in Range(storeList) \ {h}}, 1),
                   [cfg EXCEPT ![h] = CfgOk])

ConfigChange ==
    \E h \in Range(storeList) :
        \E c \in CfgCases \ {cfg[h]} :
            EnvChanged(storeList, [cfg EXCEPT ![h] = c])

----------------------------------------------------------------------------
(* Sequential placement calls over a changing fleet *)

(* The controller configuration: whether a topology map was loaded, and the *)
(* primary and fallback bands its distance getters return.                  *)
Conf(distMap, minD, maxD, minF, maxF) ==
    [distMap |-> distMap, minD |-> minD, maxD |-> maxD, minF |-> minF, maxF |-> maxF]

Confs ==
    {Conf(FALSE, 1, 2, 1, 2), Conf(FALSE, 0, 0, 3, 1),
     Conf(TRUE, 1, 2, 1, 2), Conf(TRUE, 2, 3, 1, 4)}

NoElig == [in |-> CfgOk, done |-> FALSE, out |-> FALSE]
NoCullRun == [pool |-> <<>>, picks |-> <<>>]
NoProcs == <<>>

Init ==
    /\ conf \in Confs
    /\ storeList = StoreUniverse
    /\ cfg = [h \in StoreHosts |-> CfgOk]
    /\ rrMap = [h \in AllHosts |-> 0]
    /\ last = [op |-> "none", count |-> 0, regErr |-> FALSE, pool |-> <<>>, result |-> <<>>,
               err |-> "nil", path |-> "none", queries |-> <<>>, culls |-> 0,
               rrPre |-> [h \in AllHosts |-> 0], list |-> <<>>,
               attempts |-> <<>>, sources |-> <<>>]
    /\ elig = NoElig
    /\ cullRun = NoCullRun
    /\ procs = NoProcs
    /\ rrMapMutex = 0

Next ==
    \/ PickStoreHosts
    \/ PickInputHost
    \/ PickOutputHost
    \/ HostJoin
    \/ HostLeave
    \/ ConfigChange

Spec == Init /\ [][Next]_vars

----------------------------------------------------------------------------
(* Placement calls under every configured band: the fleet is fixed, the     *)
(* configuration ranges over the 16-bit band values at and next to the      *)
(* edges.                                                                   *)

BandValues == {ZeroDistance, 1, 2, InfiniteDistance - 1, InfiniteDistance}

InitBands ==
    /\ conf \in {Conf(TRUE, a, b, c, d) : a, b, c, d \in BandValues}
    /\ storeList = <<"s1", "s3">>
    /\ cfg = [h \in StoreHosts |-> CfgOk]
    /\ rrMap = [h \in AllHosts |-> 0]
    /\ last = [op |-> "none", count |-> 0, regErr |-> FALSE, pool |-> <<>>, result |-> <<>>,
               err |-> "nil", path |-> "none", queries |-> <<>>, culls |-> 0,
               rrPre |-> [h \in AllHosts |-> 0], list |-> <<>>,
               attempts |-> <<>>, sources |-> <<>>]
    /\ elig = NoElig
    /\ cullRun = NoCullRun
    /\ procs = NoProcs
    /\ rrMapMutex = 0

NextBands == PickStoreHosts

SpecBands == InitBands /\ [][NextBands]_vars

----------------------------------------------------------------------------
(* The eligibility check on every combination of lookup outcomes *)

EligInputs ==
    [cfgErr : BOOLEAN, admin : {"enabled", "disabled", ""}, metErr : BOOLEAN,
     free : 0..MaxBytes, min : 0..MaxBytes]

InitElig ==
    /\ elig \in [in : EligInputs, done : {FALSE}, out : {FALSE}]
    /\ conf = Conf(FALSE, 1, 2, 1, 2)
    /\ storeList = <<>>
    /\ cfg = [h \in StoreHosts |-> CfgOk]
    /\ rrMap = [h \in AllHosts |-> 0]
    /\ last = [op |-> "none", count |-> 0, regErr |-> FALSE, pool |-> <<>>, result |-> <<>>,
               err |-> "nil", path |-> "none", queries |-> <<>>, culls |-> 0,
               rrPre |-> [h \in AllHosts |-> 0], list |-> <<>>,
               attempts |-> <<>>, sources |-> <<>>]
    /\ cullRun = NoCullRun
    /\ procs = NoProcs
    /\ rrMapMutex = 0

CheckEligibility ==
    /\ ~elig.done
    /\ elig' = [in |-> elig.in, done |-> TRUE, out |-> doesStoreMeetConstraints(elig.in)]
    /\ UNCHANGED <<conf, storeList, cfg, rrMap, last, cullRun, procs, rrMapMutex>>

NextElig == CheckEligibility

SpecElig == InitElig /\ [][NextElig]_vars

----------------------------------------------------------------------------
(* A run of culls, each for 1 host, over one fixed pool handed afresh to    *)
(* every call, from process start; nothing else touches the counters.       *)

InitCull ==
    /\ cullRun \in [pool : DistinctSeqs(StoreHosts) \ {<<>>}, picks : {<<>>}]
    /\ rrMap = [h \in AllHosts |-> 0]
    /\ conf = Conf(FALSE, 1, 2, 1, 2)
    /\ storeList = <<>>
    /\ cfg = [h \in StoreHosts |-> CfgOk]
    /\ last = [op |-> "none", count |-> 0, regErr |-> FALSE, pool |-> <<>>, result |-> <<>>,
               err |-> "nil", path |-> "none", queries |-> <<>>, culls |-> 0,
               rrPre |-> [h \in AllHosts |-> 0], list |-> <<>>,
               attempts |-> <<>>, sources |-> <<>>]
    /\ elig = NoElig
    /\ procs = NoProcs
    /\ rrMapMutex = 0

CullOne ==
    /\ Len(cullRun.picks) < MaxCullCalls
    /\ LET c == roundRobinCull(cullRun.pool, 1, rrMap)
       IN /\ rrMap' = c.rr
          /\ cullRun' = [cullRun EXCEPT !.picks = Append(@, c.out)]
    /\ UNCHANGED <<conf, storeList, cfg, last, elig, procs, rrMapMutex>>

NextCull == CullOne

SpecCull == InitCull /\ [][NextCull]_vars

----------------------------------------------------------------------------
(* Culls of any pool of distinct hosts for any count, one after the other,  *)
(* each over the counter table the earlier ones left.                       *)

MaxCulled == 5

InitCullAny ==
    /\ rrMap = [h \in AllHosts |-> 0]
    /\ last = [op |-> "none", count |-> 0, regErr |-> FALSE, pool |-> <<>>, result |-> <<>>,
               err |-> "nil", path |-> "none", queries |-> <<>>, culls |-> 0,
               rrPre |-> [h \in AllHosts |-> 0], list |-> <<>>,
               attempts |-> <<>>, sources |-> <<>>]
    /\ conf = Conf(FALSE, 1, 2, 1, 2)
    /\ storeList = <<>>
    /\ cfg = [h \in StoreHosts |-> CfgOk]
    /\ elig = NoElig
    /\ cullRun = NoCullRun
    /\ procs = NoProcs
    /\ rrMapMutex = 0

CullAny ==
    /\ SeqSum(rrMap, AllHosts) < MaxCulled
    /\ \E in \in DistinctSeqs(StoreHosts), count \in 0..MaxCount :
          LET c == roundRobinCull(in, count, rrMap)
          IN Returned("cull", count, FALSE, in, c.out, "nil", "none", <<>>, 1, c.rr, c.in,
                      <<>>, <<>>)

NextCullAny == CullAny

SpecCullAny == InitCullAny /\ [][NextCullAny]_vars

----------------------------------------------------------------------------
(* Concurrent roundRobinCull invocations, one step per loop of the code,    *)
(* the counter increment split into its load and its store.                 *)

Procs == 1..NumProcs

ConcPools == {<<"s1", "s2">>, <<"s2", "s1">>, <<"s1", "s2", "s3">>, <<"s3">>}

Requests == [in : ConcPools, count : 1..MaxCullCount]

NewProc(r) ==
    [pc |-> "lock", in0 |-> r.in, in |-> r.in, count |-> r.count, out |-> <<>>,
     min |-> 0, k |-> 0, tmp |-> 0, ret |-> <<>>]

InitConc ==
    /\ procs \in {[p \in Procs |-> NewProc(r[p])] : r \in [Procs -> Requests]}
    /\ rrMap \in {[h \in AllHosts |-> IF h \in S THEN 1 ELSE 0] : S \in {{}, {"s1"}, {"s2", "s3"}}}
    /\ rrMapMutex = 0
    /\ last = [op |-> "none", count |-> 0, regErr |-> FALSE, pool |-> <<>>, result |-> <<>>,
               err |-> "nil", path |-> "none", queries |-> <<>>, culls |-> 0,
               rrPre |-> rrMap, list |-> <<>>, attempts |-> <<>>, sources |-> <<>>]
    /\ conf = Conf(FALSE, 1, 2, 1, 2)
    /\ storeList = <<>>
    /\ cfg = [h \in StoreHosts |-> CfgOk]
    /\ elig = NoElig
    /\ cullRun = NoCullRun

ConcFrame == UNCHANGED <<conf, storeList, cfg, last, elig, cullRun>>

lockFreeAlways(m) == TRUE

lockFree(m) == m = 0

Lock(p) ==
    /\ procs[p].pc = "lock"
    /\ lockFree(rrMapMutex)
    /\ rrMapMutex' = p
    /\ procs' = [procs EXCEPT ![p].pc = "findCurrentMinimum"]
    /\ UNCHANGED rrMap
    /\ ConcFrame

FindCurrentMinimum(p) ==
    /\ procs[p].pc = "findCurrentMinimum"
    /\ procs' = [procs EXCEPT
                    ![p].min = findCurrentMinimum(procs[p].in, rrMap, 1, MaxInt32),
                    ![p].pc = "addMinimums"]
    /\ UNCHANGED <<rrMap, rrMapMutex>>
    /\ ConcFrame

loopDoneOnCount(out, count, min) == Len(out) = count

(* The exit test of the findNextMinimum loop. *)
loopDone(out, count, min) == Len(out) = count \/ min = MaxInt32

AddMinimums(p) ==
    /\ procs[p].pc = "addMinimums"
    /\ LET me == procs[p]
           r == addMinimums(me.in, rrMap, me.min, me.out, me.count, 1)
       IN procs' = [procs EXCEPT
                       ![p].in = r.in,
                       ![p].out = r.out,
                       ![p].pc = IF loopDone(r.out, me.count, me.min)
                                 THEN "checkCount" ELSE "findCurrentMinimum"]
    /\ UNCHANGED <<rrMap, rrMapMutex>>
    /\ ConcFrame

CheckCount(p) ==
    /\ procs[p].pc = "checkCount"
    /\ procs' = IF Len(procs[p].out) # procs[p].count
                THEN [procs EXCEPT ![p].ret = <<>>, ![p].pc = "unlock"]
                ELSE [procs EXCEPT ![p].k = 1, ![p].pc = "load"]
    /\ UNCHANGED <<rrMap, rrMapMutex>>
    /\ ConcFrame

IncrementLoad(p) ==
    /\ procs[p].pc = "load"
    /\ procs' = IF procs[p].k > Len(procs[p].out)
                THEN [procs EXCEPT ![p].ret = procs[p].out, ![p].pc = "unlock"]
                ELSE [procs EXCEPT ![p].tmp = rrMap[procs[p].out[procs[p].k]],
                                   ![p].pc = "store"]
    /\ UNCHANGED <<rrMap, rrMapMutex>>
    /\ ConcFrame

IncrementStore(p) ==
    /\ procs[p].pc = "store"
    /\ rrMap' = [rrMap EXCEPT ![procs[p].out[procs[p].k]] = procs[p].tmp + 1]
    /\ procs' = [procs EXCEPT ![p].k = @ + 1, ![p].pc = "load"]
    /\ UNCHANGED rrMapMutex
    /\ ConcFrame

Unlock(p) ==
    /\ procs[p].pc = "unlock"
    /\ rrMapMutex' = 0
    /\ procs' = [procs EXCEPT ![p].pc = "done"]
    /\ UNCHANGED rrMap
    /\ ConcFrame

NextConc ==
    \E p \in Procs :
        \/ Lock(p)
        \/ FindCurrentMinimum(p)
        \/ AddMinimums(p)
        \/ CheckCount(p)
        \/ IncrementLoad(p)
        \/ IncrementStore(p)
        \/ Unlock(p)

SpecConc == InitConc /\ [][NextConc]_vars

----------------------------------------------------------------------------
(* Concurrent culls under fair scheduling, over pools that may be empty or  *)
(* smaller than the count and counts from 0: every goroutine that can take  *)
(* a step eventually takes one, and a goroutine blocked in Lock takes the   *)
(* mutex once it stays free.                                                *)

LiveRequests ==
    {[in |-> <<>>, count |-> 0], [in |-> <<>>, count |-> 1],
     [in |-> <<"s1">>, count |-> 2], [in |-> <<"s1", "s2">>, count |-> 0],
     [in |-> <<"s2", "s1", "s3">>, count |-> 2]}

InitLive ==
    /\ procs \in {[p \in Procs |-> NewProc(r[p])] : r \in [Procs -> LiveRequests]}
    /\ rrMap \in {[h \in AllHosts |-> IF h \in S THEN 1 ELSE 0] : S \in {{}, {"s2"}}}
    /\ rrMapMutex = 0
    /\ last = [op |-> "none", count |-> 0, regErr |-> FALSE, pool |-> <<>>, result |-> <<>>,
               err |-> "nil", path |-> "none", queries |-> <<>>, culls |-> 0,
               rrPre |-> rrMap, list |-> <<>>, attempts |-> <<>>, sources |-> <<>>]
    /\ conf = Conf(FALSE, 1, 2, 1, 2)
    /\ storeList = <<>>
    /\ cfg = [h \in StoreHosts |-> CfgOk]
    /\ elig = NoElig
    /\ cullRun = NoCullRun

ProcStep(p) ==
    \/ Lock(p)
    \/ FindCurrentMinimum(p)
    \/ AddMinimums(p)
    \/ CheckCount(p)
    \/ IncrementLoad(p)
    \/ IncrementStore(p)
    \/ Unlock(p)

FairScheduling == \A p \in Procs : WF_vars(ProcStep(p))

SpecLive == InitLive /\ [][NextConc]_vars /\ FairScheduling

----------------------------------------------------------------------------
(* Properties of the placement calls, checked under Spec *)

Distinct(s) == \A i, j \in DOMAIN s : i # j => s[i] # s[j]

StoreReturned == last.op = "store"

(* C1: a successful PickStoreHosts(count) returns exactly count pairwise    *)
(* distinct hosts and a failing one returns no host, on every path and for  *)
(* every topology response.                                                 *)
C1_CountInvariant ==
    StoreReturned =>
        IF last.err = "nil"
        THEN Len(last.result) = last.count /\ Distinct(last.result)
        ELSE last.result = <<>>

PrimarySuccess ==
    /\ StoreReturned
    /\ conf.distMap
    /\ last.path = "primary"
    /\ last.err = "nil"
    /\ Len(last.result) = last.count

(* C2 as stated: after a PickStoreHosts that succeeds through the primary   *)
(* distance attempt, every returned host's counter is one higher than       *)
(* before the call and every other counter is unchanged.                    *)
C2_PrimaryIncrementsCounters ==
    PrimarySuccess =>
        \A h \in AllHosts :
            rrMap[h] = last.rrPre[h] + (IF h \in Range(last.result) THEN 1 ELSE 0)

(* C2 amended: after a PickStoreHosts that succeeds through the primary     *)
(* distance attempt, the counter table is what it was before the call: no   *)
(* counter, of a returned host or of any other, has changed.                *)
C2_PrimaryLeavesCounters == PrimarySuccess => rrMap = last.rrPre

C2_Witness == PrimarySuccess /\ last.count >= 2 /\ \E h \in StoreHosts : rrMap[h] > 0

(* C3: every failing PickStoreHosts returns the error errNoStoreHosts,      *)
(* whatever the cause; never errNoHosts or a collaborator's error.          *)
C3_StoreErrorKind ==
    (StoreReturned /\ last.err # "nil") => last.err = "errNoStoreHosts"

(* C4: PickInputHost (PickOutputHost) fails with errNoInputHosts            *)
(* (errNoOutputHosts) when the registry call fails or returns no host; in   *)
(* every other case it succeeds with exactly one host, a member of the list *)
(* the registry returned.                                                   *)
C4_InputOutputOutcome ==
    last.op \in {"input", "output"} =>
        IF last.regErr \/ last.pool = <<>>
        THEN /\ last.err = (IF last.op = "input" THEN "errNoInputHosts" ELSE "errNoOutputHosts")
             /\ last.result = <<>>
        ELSE /\ last.err = "nil"
             /\ Len(last.result) = 1
             /\ last.result[1] \in Range(last.pool)

C4_Witness ==
    /\ last.op = "input"
    /\ ~last.regErr
    /\ Len(last.pool) = 2
    /\ last.rrPre[last.pool[1]] > last.rrPre[last.pool[2]]
    /\ last.result = <<last.pool[2]>>

Rejected(h) == h \in Range(storeList) /\ ~doesStoreMeetConstraints(cfg[h])

(* C8: no host the eligibility check rejects in a PickStoreHosts call is in *)
(* that call's result, also when an eligible and a rejected store host      *)
(* share the host part of their addresses.                                  *)
C8_NoRejectedHostReturned ==
    StoreReturned => \A h \in Range(last.result) : ~Rejected(h)

C8_Witness ==
    /\ StoreReturned
    /\ conf.distMap
    /\ last.path \in {"primary", "fallback"}
    /\ \E h \in Range(last.result), g \in StoreHosts :
          /\ Rejected(g)
          /\ Addr[h][1] = Addr[g][1]
          /\ Addr[h][2] < Addr[g][2]

(* C10: without a topology map PickStoreHosts with at least count eligible  *)
(* hosts returns, without error, the first count eligible hosts in pool     *)
(* order, whatever the configured bands, and neither queries the topology   *)
(* service nor invokes the fairness cull.                                   *)
C10_NoTopologyFirstCount ==
    (StoreReturned /\ ~conf.distMap /\ ~last.regErr /\ Len(last.pool) >= last.count) =>
        /\ last.err = "nil"
        /\ last.result = [i \in 1..last.count |-> last.pool[i]]
        /\ last.culls = 0
        /\ last.queries = <<>>
        /\ rrMap = last.rrPre

C10_Witness ==
    /\ StoreReturned
    /\ ~conf.distMap
    /\ conf.minD = 0
    /\ last.count = 2
    /\ Len(last.pool) = 3
    /\ last.result = <<last.pool[1], last.pool[2]>>

----------------------------------------------------------------------------
(* Properties of the fairness culler *)

(* C5, checked under SpecCull: over a fixed pool of P distinct hosts and    *)
(* culls for 1 host each, started with all counters equal, every call       *)
(* returns one host, every P consecutive calls select each pool host        *)
(* exactly once, and after every prefix of the run the counters of any two  *)
(* pool hosts differ by at most 1.                                          *)
C5_RoundRobinFairness ==
    LET pool == cullRun.pool
        picks == cullRun.picks
        P == Len(pool)
    IN /\ \A k \in DOMAIN picks : Len(picks[k]) = 1
       /\ \A k \in 1..(Len(picks) - P + 1) :
             {picks[j][1] : j \in k..(k + P - 1)} = Range(pool)
       /\ \A h, g \in Range(pool) : rrMap[h] - rrMap[g] <= 1

C5_Witness == Len(cullRun.pool) = 3 /\ Len(cullRun.picks) >= 6

AllDone == procs # NoProcs /\ \A p \in Procs : procs[p].pc = "done"

InCritical(p) ==
    procs[p].pc \in {"findCurrentMinimum", "addMinimums", "checkCount", "load", "store", "unlock"}

(* The culls of the processes run one after another, in the given order. *)
RECURSIVE SerialRun(_, _, _)
SerialRun(order, rr, outs) ==
    IF order = <<>> THEN [rr |-> rr, outs |-> outs]
    ELSE LET p == Head(order)
             c == roundRobinCull(procs[p].in0, procs[p].count, rr)
         IN SerialRun(Tail(order), c.rr, [outs EXCEPT ![p] = c.out])

Serializable ==
    \E order \in {o \in DistinctSeqs(Procs) : Len(o) = NumProcs} :
        LET s == SerialRun(order, last.rrPre, [p \in Procs |-> <<>>])
        IN /\ s.rr = rrMap
           /\ \A p \in Procs : s.outs[p] = procs[p].ret

SamePoolOneHost(p, q) ==
    /\ p # q
    /\ procs[p].in0 = procs[q].in0
    /\ Len(procs[p].in0) >= 2
    /\ procs[p].count = 1
    /\ procs[q].count = 1
    /\ \A h, g \in Range(procs[p].in0) : last.rrPre[h] = last.rrPre[g]
    /\ \A r \in Procs \ {p, q} : Range(procs[r].in0) \cap Range(procs[p].in0) = {}

(* C6, checked under SpecConc: concurrent culls are atomic.  No two are     *)
(* inside the scan-then-increment at once; when all have returned, their    *)
(* results and the counter table are those of some sequential order of the  *)
(* same culls; two culls for 1 host over the same pool of at least 2 hosts  *)
(* with equal counters, no third cull touching that pool, return different  *)
(* hosts; and the counters have grown by exactly the number of hosts        *)
(* returned.                                                                *)
C6_CullsAtomic ==
    procs # NoProcs =>
        /\ \A p, q \in Procs : p # q => ~(InCritical(p) /\ InCritical(q))
        /\ AllDone =>
              /\ Serializable
              /\ \A p, q \in Procs :
                    SamePoolOneHost(p, q) => procs[p].ret # procs[q].ret
              /\ SeqSum(rrMap, AllHosts) =
                    SeqSum(last.rrPre, AllHosts)
                      + SeqSum([p \in Procs |-> Len(procs[p].ret)], Procs)

C6_Witness ==
    /\ AllDone
    /\ SamePoolOneHost(1, 2)
    /\ procs[1].ret = <<procs[1].in0[2]>>
    /\ procs[2].ret = <<procs[2].in0[1]>>

----------------------------------------------------------------------------
(* Properties of the eligibility check and of the distance bands *)

(* C7, checked under SpecElig: the eligibility check returns false exactly  *)
(* when the config lookup succeeds and either the administrative status is  *)
(* not "enabled", or it is "enabled", the metric lookup succeeds and the    *)
(* reported free space is at most the configured minimum.                   *)
C7_EligibilityVerdict ==
    elig.done =>
        (elig.out = FALSE <=>
            /\ ~elig.in.cfgErr
            /\ \/ elig.in.admin # "enabled"
               \/ /\ elig.in.admin = "enabled"
                  /\ ~elig.in.metErr
                  /\ elig.in.free <= elig.in.min)

C7_Witness ==
    /\ elig.done
    /\ ~elig.in.cfgErr
    /\ elig.in.admin = "enabled"
    /\ ~elig.in.metErr
    /\ elig.in.free = elig.in.min
    /\ elig.out = FALSE

NormalizedBand(min, max) ==
    LET m == IF min = 0 THEN 1 ELSE min
    IN Band(m, IF max <= m THEN InfiniteDistance ELSE max)

(* C9, checked under SpecBands: every distance query PickStoreHosts issues  *)
(* carries a normalized band.  Its min is at least 1, a configured 0 being  *)
(* promoted to 1; its max is InfiniteDistance when the configured max is    *)
(* at most that min, and the configured max otherwise.  The first query     *)
(* carries the primary band, the second the fallback band.                  *)
C9_QueriesNormalized ==
    StoreReturned =>
        /\ Len(last.queries) <= 2
        /\ \A i \in DOMAIN last.queries : last.queries[i].min >= 1
        /\ Len(last.queries) >= 1 => last.queries[1] = NormalizedBand(conf.minD, conf.maxD)
        /\ Len(last.queries) = 2 => last.queries[2] = NormalizedBand(conf.minF, conf.maxF)

C9_Witness ==
    /\ StoreReturned
    /\ conf.minD = 2
    /\ conf.maxD = 2
    /\ conf.minF = 0
    /\ conf.maxF = 1
    /\ last.queries = <<Band(2, InfiniteDistance), Band(1, InfiniteDistance)>>

----------------------------------------------------------------------------
(* Further properties of the placement calls, checked under Spec *)

(* C11: over any sequence of PickInputHost, PickOutputHost and              *)
(* PickStoreHosts calls no counter ever decreases, and a counter grows, by  *)
(* exactly 1, only in a call that succeeds and whose returned hosts include *)
(* that host.                                                               *)
C11_CountersGrowOnlyForReturned ==
    \A h \in AllHosts :
        /\ rrMap[h] >= last.rrPre[h]
        /\ rrMap[h] # last.rrPre[h] =>
              /\ rrMap[h] = last.rrPre[h] + 1
              /\ last.err = "nil"
              /\ h \in Range(last.result)

C11_Witness ==
    /\ StoreReturned
    /\ last.path = "cull"
    /\ last.err = "nil"
    /\ last.count = 2
    /\ \A h \in Range(last.result) : rrMap[h] = last.rrPre[h] + 1
    /\ \E g \in Range(last.pool) \ Range(last.result) :
          last.rrPre[g] > 0 /\ rrMap[g] = last.rrPre[g]

(* The primary distance attempt of the last PickStoreHosts was made and     *)
(* failed.                                                                  *)
PrimaryFailed ==
    /\ StoreReturned
    /\ last.attempts # <<>>
    /\ last.attempts[1].kind = "primary"
    /\ ~last.attempts[1].ok

SecondQueryIssued == Len(last.queries) = 2

WentStraightToCull ==
    /\ Len(last.queries) = 1
    /\ Len(last.attempts) = 2
    /\ last.attempts[2].kind = "cull"

(* C12 as stated, checked under SpecBands: after the primary attempt failed *)
(* a second distance query is issued exactly when the configured fallback   *)
(* band differs from the configured primary band, and otherwise the call    *)
(* goes straight to the cull.                                               *)
C12_SecondQueryWhenBandsDiffer ==
    PrimaryFailed =>
        /\ SecondQueryIssued <=> <<conf.minF, conf.maxF>> # <<conf.minD, conf.maxD>>
        /\ ~SecondQueryIssued => WentStraightToCull

(* C12 amended, checked under SpecBands: after the primary attempt failed a *)
(* second distance query, carrying the normalized fallback band, is issued  *)
(* exactly when the configured fallback min is below the normalized primary *)
(* min or the configured fallback max is above the normalized primary max;  *)
(* otherwise no second query is issued and the call goes straight to the    *)
(* cull.                                                                    *)
C12_SecondQueryWhenFallbackWider ==
    PrimaryFailed =>
        LET primary == NormalizedBand(conf.minD, conf.maxD)
        IN /\ SecondQueryIssued <=>
                 (conf.minF < primary.min \/ conf.maxF > primary.max)
           /\ SecondQueryIssued =>
                 last.queries[2] = NormalizedBand(conf.minF, conf.maxF)
           /\ ~SecondQueryIssued => WentStraightToCull

(* A fallback band strictly inside the primary band: no second query. *)
C12_Witness ==
    /\ PrimaryFailed
    /\ conf.minD = 1
    /\ conf.maxD = InfiniteDistance
    /\ conf.minF = 2
    /\ conf.maxF = InfiniteDistance - 1
    /\ WentStraightToCull
    /\ last.err = "nil"

(* C13: when the eligible store hosts are at least one but fewer than       *)
(* count, PickStoreHosts fails with no host, issues no topology query,      *)
(* runs no cull and leaves every counter as it was.                         *)
C13_TooFewEligibleFailsEarly ==
    (/\ StoreReturned
     /\ ~last.regErr
     /\ Len(last.pool) > 0
     /\ Len(last.pool) < last.count) =>
        /\ last.err # "nil"
        /\ last.result = <<>>
        /\ last.queries = <<>>
        /\ last.attempts = <<>>
        /\ last.culls = 0
        /\ rrMap = last.rrPre

C13_Witness ==
    /\ StoreReturned
    /\ conf.distMap
    /\ Len(storeList) = 3
    /\ Len(last.pool) = 2
    /\ last.count = 3
    /\ last.err # "nil"
    /\ \E h \in Range(last.pool) : rrMap[h] > 0

AttemptKinds == [i \in DOMAIN last.attempts |-> last.attempts[i].kind]

AttemptsOfKind(K) == Cardinality({i \in DOMAIN last.attempts : last.attempts[i].kind \in K})

(* C14: PickStoreHosts makes its attempts in the order primary distance     *)
(* pick, fallback distance pick, cull, after the eligibility filter and the *)
(* count check passed; it makes at most two distance queries and at most    *)
(* one cull; every attempt but the last one failed, so the fallback pick    *)
(* follows a failed primary pick and the cull follows a failed primary pick *)
(* and a skipped or failed fallback pick; the call succeeds exactly when    *)
(* its last attempt succeeded, returning at the first success.              *)
C14_AttemptOrder ==
    StoreReturned =>
        LET a == last.attempts
        IN /\ AttemptKinds \in {<<>>, <<"primary">>, <<"primary", "fallback">>,
                                 <<"primary", "cull">>, <<"primary", "fallback", "cull">>}
           /\ \A i \in DOMAIN a : i < Len(a) => ~a[i].ok
           /\ last.err = "nil" <=> (a # <<>> /\ a[Len(a)].ok)
           /\ a = <<>> <=> (last.regErr \/ Len(last.pool) < last.count \/ last.pool = <<>>)
           /\ Len(last.queries) <= 2
           /\ last.culls <= 1
           /\ Len(last.queries) = IF conf.distMap THEN AttemptsOfKind({"primary", "fallback"}) ELSE 0
           /\ last.culls = AttemptsOfKind({"cull"})

C14_Witness ==
    /\ StoreReturned
    /\ conf.distMap
    /\ AttemptKinds = <<"primary", "fallback", "cull">>
    /\ Len(last.queries) = 2
    /\ last.culls = 1
    /\ last.count = 2
    /\ last.err = "nil"

----------------------------------------------------------------------------
(* Properties of one cull, checked under SpecCullAny *)

CullReturned == last.op = "cull"

(* C15: a cull for count >= 1 over distinct candidates is all or nothing.   *)
(* With at least count candidates it returns exactly count of them, adds 1  *)
(* to the counter of each returned host and leaves every other counter;     *)
(* with fewer candidates it returns nothing and leaves the whole table.     *)
C15_CullAllOrNothing ==
    (CullReturned /\ last.count >= 1) =>
        IF Len(last.pool) >= last.count
        THEN /\ Len(last.result) = last.count
             /\ Distinct(last.result)
             /\ Range(last.result) \subseteq Range(last.pool)
             /\ \A h \in AllHosts :
                   rrMap[h] = last.rrPre[h] + (IF h \in Range(last.result) THEN 1 ELSE 0)
        ELSE /\ last.result = <<>>
             /\ rrMap = last.rrPre

C15_Witness ==
    /\ CullReturned
    /\ last.count = 3
    /\ Len(last.pool) = 2
    /\ last.result = <<>>
    /\ \E g, h \in Range(last.pool) : last.rrPre[g] < last.rrPre[h]

PoolIndex(h) == CHOOSE i \in DOMAIN last.pool : last.pool[i] = h

(* g sorts before h: by counter before the call, then by pool position. *)
SortsBefore(g, h) ==
    \/ last.rrPre[g] < last.rrPre[h]
    \/ last.rrPre[g] = last.rrPre[h] /\ PoolIndex(g) < PoolIndex(h)

(* C16: a successful cull returns the first count elements of the pool      *)
(* sorted stably by the counters before the call: the output is in          *)
(* non-decreasing counter order with ties in pool order, and every returned *)
(* host sorts before every candidate that was not returned.                 *)
C16_CullStableOrder ==
    (CullReturned /\ last.count >= 1 /\ Len(last.pool) >= last.count) =>
        /\ Len(last.result) = last.count
        /\ \A i, j \in DOMAIN last.result :
              i < j => SortsBefore(last.result[i], last.result[j])
        /\ \A r \in Range(last.result), h \in Range(last.pool) \ Range(last.result) :
              SortsBefore(r, h)

(* Two hosts tie on the lowest counter and a third host, earlier in the     *)
(* pool, has a higher one.                                                  *)
C16_Witness ==
    /\ CullReturned
    /\ last.pool = <<"s2", "s3", "s1">>
    /\ last.rrPre["s2"] = 2
    /\ last.rrPre["s3"] = 1
    /\ last.rrPre["s1"] = 1
    /\ last.count = 3
    /\ last.result = <<"s3", "s1", "s2">>

----------------------------------------------------------------------------
(* Properties of the lists and addresses a call handles, checked under Spec *)

(* C17: no placement call modifies a host list it obtained from the         *)
(* registry.  After PickStoreHosts, PickInputHost or PickOutputHost         *)
(* returns, the list the registry returned to the call holds the same       *)
(* entries in the same order as when it was returned.                       *)
C17_RegistryListUntouched ==
    (last.op \in {"store", "input", "output"} /\ ~last.regErr) =>
        last.list = (IF last.op = "store" THEN storeList ELSE last.pool)

DistancePickSucceeded ==
    /\ StoreReturned
    /\ conf.distMap
    /\ last.err = "nil"
    /\ last.path \in {"primary", "fallback"}

(* C18: the projection of pool hosts to resource ids is inverted within a   *)
(* call, also for pools where two hosts share the host part and differ in   *)
(* the port: every resource the topology service returned is resolved to    *)
(* the pool host it was derived from, and distinct pool hosts are never     *)
(* resolved to one address.                                                 *)
C18_ResourcesResolveToOrigin ==
    DistancePickSucceeded =>
        LET from == last.attempts[Len(last.attempts)].from
        IN /\ Len(last.result) = Len(from)
           /\ \A i \in DOMAIN from : last.result[i] = last.pool[from[i]]
           /\ Distinct(last.result)

RoleReturned == last.op \in {"input", "output"}

AltSources == DistinctSeqs(StoreHosts)

AltBands ==
    {<<0, 0, 0, 0>>, <<1, 2, 1, 2>>, <<2, 1, 3, InfiniteDistance>>,
     <<InfiniteDistance, InfiniteDistance, 0, 1>>}

----------------------------------------------------------------------------
(* Termination of the culls, checked under SpecLive *)

(* C20: every cull terminates, for every pool, the empty one and those      *)
(* smaller than the count included, and every count from 0, and holds the   *)
(* lock no longer once it has returned; under fair scheduling every cull    *)
(* started concurrently eventually returns, with the lock free at the end.  *)
C20_CullsTerminate ==
    /\ [](\A p \in Procs : procs[p].pc = "done" => rrMapMutex # p)
    /\ <>(AllDone /\ rrMapMutex = 0)

C20_Witness ==
    /\ AllDone
    /\ rrMapMutex = 0
    /\ \E p, q \in Procs :
          /\ procs[p].in0 = <<>>
          /\ procs[p].count = 0
          /\ procs[q].in0 = <<"s1">>
          /\ procs[q].count = 2
          /\ procs[q].ret = <<>>

====
